---- MODULE Spec2Model ----
(***************************************************************************)
(* Dining philosophers of DiningPhilosopher.py: n Philosopher threads, n   *)
(* Fork objects in a ring, one threading.Lock and one Queue per Fork, and  *)
(* the table thread that waits for all the spaghetti to be eaten.          *)
(*                                                                         *)
(* A thread's position is pc[p] = <<site, line>>: site is the line of      *)
(* Philosopher.run / Philosopher.eat the thread is at, and line is the     *)
(* line of Fork.pickup / Fork.put_down it is at when site is a call of one *)
(* of these (0 otherwise).  Every statement that reads or writes a field   *)
(* another thread can see is one step.                                     *)
(***************************************************************************)
EXTENDS Integers, Sequences, FiniteSets

\* Bounds of the model: ring sizes 2..MaxN and budgets 1..MaxM with at most
\* MaxMeals portions on the table (n * m), and the number of leading entries
\* of a Queue the model records.
MaxN == 3
MaxM == 2
MaxMeals == 4
MaxQueue == 7

VARIABLES
    n,          \* main: n, the number of philosophers and of forks
    m,          \* main: m, the initial spaghetti of every philosopher
    pc,         \* position of every Philosopher thread
    spaghetti,  \* Philosopher.spaghetti
    eating,     \* Philosopher.eating
    finished,   \* Philosopher.finished
    lock,       \* Fork.lock: NoOwner when unlocked, else the thread that acquired it
    owner,      \* Fork.owner
    picked_up,  \* Fork.picked_up
    queue,      \* Fork.queue (Philosopher i shares the Queue of Fork i)
    stdout,     \* the philosophers whose "left the table" line was printed
    table_running, \* the table thread is still in its while loop
    watched     \* the fork whose Queue the model records (NoFork: none)

vars == <<n, m, pc, spaghetti, eating, finished, lock, owner, picked_up,
          queue, stdout, table_running, watched>>

Philosophers == 0 .. (n - 1)
Forks == 0 .. (n - 1)

\* The thread identities of the largest ring; thread p runs when p < n.
Threads == 0 .. (MaxN - 1)

\* Fork.__init__: owner = -1
NoOwner == -1

\* main, lines 183-186: Philosopher(i, forks[right_fork_index], forks[left_fork_index], ...)
\* so the constructor's left_fork is forks[i] and its right_fork is forks[(i + n - 1) % n].
left_fork(i) == i

\* the wiring of the list comprehension of lines 179-181, which the loop of
\* lines 183-186 overwrites
right_fork_of_comprehension(i) == (i + 1) % n

right_fork(i) == (i + n - 1) % n

\* main, line 186: the philosopher's queue is forks[i].queue
queue_of(i) == i

\* Positions outside Fork methods.
AtLoop == <<86, 0>>
AtSleepRetry == <<112, 0>>
AtDecrement == <<118, 0>>
AtSetEating == <<119, 0>>
AtPutEating == <<120, 0>>
AtSleepEating == <<121, 0>>
AtPutDownEvent == <<126, 0>>
AtFinish == <<90, 0>>
Terminated == <<0, 0>>
\* the thread died with the RuntimeError of releasing an unlocked lock
Crashed == <<-1, 0>>

\* eat taking its forks in the other order
ForkAt_second_first(p, site) ==
    IF site \in {106, 110, 124} THEN right_fork(p) ELSE left_fork(p)

\* The fork a call site of eat uses.
ForkAt(p, site) ==
    IF site \in {106, 110, 124} THEN left_fork(p) ELSE right_fork(p)

\* No fork's Queue is recorded.
NoFork == NoOwner

\* Queue.put on the Queue of fork f.  The Queues grow without bound (every
\* retry adds entries), so the model records a window of them: the first
\* MaxQueue entries of the Queue of the watched fork.  Init watches every
\* fork in turn.
put(f, q, e) ==
    IF f = watched /\ Len(q) < MaxQueue THEN Append(q, e) ELSE q

\* The recorded Queue of fork f holds all that was put on it so far.
Recorded(f) == f = watched /\ Len(queue[f]) < MaxQueue

\* an acquire that does not exclude a second holder
LockFree_no_exclusion(f) == TRUE

\* threading.Lock.acquire(timeout=1) can succeed when the lock is unlocked.
LockFree(f) == lock[f] = NoOwner

\* eat breaking out of its loop after the first pickup alone
eat_pickup_true_breaks_early(site) == AtDecrement

\* Philosopher.eat, lines 106-108: where a True from pickup leads.
eat_pickup_true(site) == IF site = 106 THEN <<107, 38>> ELSE AtDecrement

\* eat without the backoff: a failed second pickup is retried while the
\* first fork stays in hand
eat_pickup_false_hold_and_wait(site) ==
    IF site = 106 THEN AtSleepRetry ELSE <<107, 38>>

\* eat putting the first fork down in the wrong branch, after a failed
\* first pickup as well
eat_pickup_false_wrong_branch(site) == <<110, 50>>

\* eat forgetting line 110: after a failed second pickup the philosopher
\* sleeps and starts again with the first fork still in hand
eat_pickup_false_keeps_first(site) == AtSleepRetry

\* Philosopher.eat, lines 109-112: where a False from pickup leads.
eat_pickup_false(site) == IF site = 106 THEN AtSleepRetry ELSE <<110, 50>>

\* eat forgetting line 125: the second fork is never put down
eat_put_down_return_forgets_second(site) ==
    IF site = 110 THEN <<106, 38>> ELSE AtPutDownEvent

\* Philosopher.eat, lines 110, 124-126: where the return of put_down leads.
eat_put_down_return(site) ==
    IF site = 110 THEN <<106, 38>>
    ELSE IF site = 124 THEN <<125, 50>>
    ELSE AtPutDownEvent

\* main, lines 176-189: the forks, the philosophers and their threads.
Setup ==
    /\ n \in 2 .. MaxN
    /\ m \in 1 .. MaxM
    /\ n * m <= MaxMeals
    /\ pc = [p \in Philosophers |-> AtLoop]
    /\ spaghetti = [p \in Philosophers |-> m]
    /\ eating = [p \in Philosophers |-> FALSE]
    /\ finished = [p \in Philosophers |-> FALSE]
    /\ lock = [f \in Forks |-> NoOwner]
    /\ owner = [f \in Forks |-> NoOwner]
    /\ picked_up = [f \in Forks |-> FALSE]
    /\ queue = [f \in Forks |-> <<>>]
    /\ stdout = <<>>
    /\ table_running = TRUE

Init == Setup /\ watched \in Forks

\* run, line 86: the while condition letting a philosopher with an empty
\* plate go round once more
run_continues_one_more(p) == spaghetti[p] >= 0

\* run, line 86: the while condition, off by one
run_continues_early_exit(p) == spaghetti[p] > 1

\* run, line 86: the while condition
run_continues(p) == spaghetti[p] > 0

\* run, lines 86-88 and eat, lines 102-106: spaghetti left, think, then call eat.
Think(p) ==
    /\ p \in Philosophers
    /\ pc[p] = AtLoop
    /\ run_continues(p)
    /\ pc' = [pc EXCEPT ![p] = IF finished[p] THEN AtLoop ELSE <<106, 38>>]
    /\ UNCHANGED <<n, m, spaghetti, eating, finished, lock, owner, picked_up,
                   queue, stdout, table_running, watched>>

\* Fork.pickup, line 38: the lock is acquired within the timeout.
pickup_acquire(p) ==
    /\ p \in Philosophers
    /\ pc[p][2] = 38
    /\ LockFree(ForkAt(p, pc[p][1]))
    /\ lock' = [lock EXCEPT ![ForkAt(p, pc[p][1])] = p]
    /\ pc' = [pc EXCEPT ![p] = <<pc[p][1], 39>>]
    /\ UNCHANGED <<n, m, spaghetti, eating, finished, owner, picked_up,
                   queue, stdout, table_running, watched>>

\* A pickup that writes the owner field before it tries the lock, so that a
\* timed-out call has renamed the owner of a fork somebody else holds.
pickup_timeout_marks_owner(p) ==
    /\ p \in Philosophers
    /\ pc[p][2] = 38
    /\ ~LockFree(ForkAt(p, pc[p][1]))
    /\ owner' = [owner EXCEPT ![ForkAt(p, pc[p][1])] = p]
    /\ pc' = [pc EXCEPT ![p] = eat_pickup_false(pc[p][1])]
    /\ UNCHANGED <<n, m, spaghetti, eating, finished, lock, picked_up,
                   queue, stdout, table_running, watched>>

\* Fork.pickup, lines 38, 43-44: the lock stayed locked, the timeout ran out.
pickup_timeout(p) ==
    /\ p \in Philosophers
    /\ pc[p][2] = 38
    /\ ~LockFree(ForkAt(p, pc[p][1]))
    /\ pc' = [pc EXCEPT ![p] = eat_pickup_false(pc[p][1])]
    /\ UNCHANGED <<n, m, spaghetti, eating, finished, lock, owner, picked_up,
                   queue, stdout, table_running, watched>>

\* Fork.pickup, line 39
pickup_owner(p) ==
    /\ p \in Philosophers
    /\ pc[p][2] = 39
    /\ owner' = [owner EXCEPT ![ForkAt(p, pc[p][1])] = p]
    /\ pc' = [pc EXCEPT ![p] = <<pc[p][1], 40>>]
    /\ UNCHANGED <<n, m, spaghetti, eating, finished, lock, picked_up,
                   queue, stdout, table_running, watched>>

\* Fork.pickup, line 40
pickup_picked_up(p) ==
    /\ p \in Philosophers
    /\ pc[p][2] = 40
    /\ picked_up' = [picked_up EXCEPT ![ForkAt(p, pc[p][1])] = TRUE]
    /\ pc' = [pc EXCEPT ![p] = <<pc[p][1], 41>>]
    /\ UNCHANGED <<n, m, spaghetti, eating, finished, lock, owner,
                   queue, stdout, table_running, watched>>

\* Fork.pickup, lines 41-42
pickup_put(p) ==
    /\ p \in Philosophers
    /\ pc[p][2] = 41
    /\ LET f == ForkAt(p, pc[p][1])
       IN queue' = [queue EXCEPT ![f] = put(f, @, <<f, "pickup">>)]
    /\ pc' = [pc EXCEPT ![p] = eat_pickup_true(pc[p][1])]
    /\ UNCHANGED <<n, m, spaghetti, eating, finished, lock, owner, picked_up,
                   stdout, table_running, watched>>

\* eat, line 112, then back to line 106
SleepRetry(p) ==
    /\ p \in Philosophers
    /\ pc[p] = AtSleepRetry
    /\ pc' = [pc EXCEPT ![p] = <<106, 38>>]
    /\ UNCHANGED <<n, m, spaghetti, eating, finished, lock, owner, picked_up,
                   queue, stdout, table_running, watched>>

\* Fork.put_down, line 50: Lock.release raises RuntimeError on an unlocked
\* lock and unlocks a locked one, whoever locked it.
put_down_release(p) ==
    /\ p \in Philosophers
    /\ pc[p][2] = 50
    /\ LET f == ForkAt(p, pc[p][1])
       IN IF lock[f] = NoOwner
          THEN /\ pc' = [pc EXCEPT ![p] = Crashed]
               /\ lock' = lock
          ELSE /\ pc' = [pc EXCEPT ![p] = <<pc[p][1], 51>>]
               /\ lock' = [lock EXCEPT ![f] = NoOwner]
    /\ UNCHANGED <<n, m, spaghetti, eating, finished, owner, picked_up,
                   queue, stdout, table_running, watched>>

\* Fork.put_down, line 51
put_down_picked_up(p) ==
    /\ p \in Philosophers
    /\ pc[p][2] = 51
    /\ picked_up' = [picked_up EXCEPT ![ForkAt(p, pc[p][1])] = FALSE]
    /\ pc' = [pc EXCEPT ![p] = <<pc[p][1], 52>>]
    /\ UNCHANGED <<n, m, spaghetti, eating, finished, lock, owner,
                   queue, stdout, table_running, watched>>

\* Fork.put_down, line 52
put_down_owner(p) ==
    /\ p \in Philosophers
    /\ pc[p][2] = 52
    /\ owner' = [owner EXCEPT ![ForkAt(p, pc[p][1])] = NoOwner]
    /\ pc' = [pc EXCEPT ![p] = <<pc[p][1], 53>>]
    /\ UNCHANGED <<n, m, spaghetti, eating, finished, lock, picked_up,
                   queue, stdout, table_running, watched>>

\* Fork.put_down, line 53
put_down_put(p) ==
    /\ p \in Philosophers
    /\ pc[p][2] = 53
    /\ LET f == ForkAt(p, pc[p][1])
       IN queue' = [queue EXCEPT ![f] = put(f, @, <<f, "put down">>)]
    /\ pc' = [pc EXCEPT ![p] = eat_put_down_return(pc[p][1])]
    /\ UNCHANGED <<n, m, spaghetti, eating, finished, lock, owner, picked_up,
                   stdout, table_running, watched>>

\* eat, lines 115-118
Decrement(p) ==
    /\ p \in Philosophers
    /\ pc[p] = AtDecrement
    /\ IF finished[p]
       THEN /\ spaghetti' = spaghetti
            /\ pc' = [pc EXCEPT ![p] = <<124, 50>>]
       ELSE /\ spaghetti' = [spaghetti EXCEPT ![p] = @ - 1]
            /\ pc' = [pc EXCEPT ![p] = AtSetEating]
    /\ UNCHANGED <<n, m, eating, finished, lock, owner, picked_up,
                   queue, stdout, table_running, watched>>

\* eat, line 119
SetEating(p) ==
    /\ p \in Philosophers
    /\ pc[p] = AtSetEating
    /\ eating' = [eating EXCEPT ![p] = TRUE]
    /\ pc' = [pc EXCEPT ![p] = AtPutEating]
    /\ UNCHANGED <<n, m, spaghetti, finished, lock, owner, picked_up,
                   queue, stdout, table_running, watched>>

\* eat, line 120
PutEating(p) ==
    /\ p \in Philosophers
    /\ pc[p] = AtPutEating
    /\ queue' = [queue EXCEPT ![queue_of(p)] = put(queue_of(p), @, <<p, "eating">>)]
    /\ pc' = [pc EXCEPT ![p] = AtSleepEating]
    /\ UNCHANGED <<n, m, spaghetti, eating, finished, lock, owner, picked_up,
                   stdout, table_running, watched>>

\* eat, lines 121-123: the sleep ends and the finally block clears the flag
ClearEating(p) ==
    /\ p \in Philosophers
    /\ pc[p] = AtSleepEating
    /\ eating' = [eating EXCEPT ![p] = FALSE]
    /\ pc' = [pc EXCEPT ![p] = <<124, 50>>]
    /\ UNCHANGED <<n, m, spaghetti, finished, lock, owner, picked_up,
                   queue, stdout, table_running, watched>>

\* eat, line 126, then back to run, line 86
PutDownEvent(p) ==
    /\ p \in Philosophers
    /\ pc[p] = AtPutDownEvent
    /\ queue' = [queue EXCEPT ![queue_of(p)] = put(queue_of(p), @, <<p, "put down">>)]
    /\ pc' = [pc EXCEPT ![p] = AtLoop]
    /\ UNCHANGED <<n, m, spaghetti, eating, finished, lock, owner, picked_up,
                   stdout, table_running, watched>>

\* run, lines 86 and 89: no spaghetti left, print "left the table"
Leave(p) ==
    /\ p \in Philosophers
    /\ pc[p] = AtLoop
    /\ ~run_continues(p)
    /\ stdout' = Append(stdout, p)
    /\ pc' = [pc EXCEPT ![p] = AtFinish]
    /\ UNCHANGED <<n, m, spaghetti, eating, finished, lock, owner, picked_up,
                   queue, table_running, watched>>

\* run, line 90
Finish(p) ==
    /\ p \in Philosophers
    /\ pc[p] = AtFinish
    /\ finished' = [finished EXCEPT ![p] = TRUE]
    /\ pc' = [pc EXCEPT ![p] = Terminated]
    /\ UNCHANGED <<n, m, spaghetti, eating, lock, owner, picked_up,
                   queue, stdout, table_running, watched>>

RECURSIVE SumTo(_, _)
SumTo(f, k) == IF k < 0 THEN 0 ELSE f[k] + SumTo(f, k - 1)

\* table, line 169: sum(philosopher.spaghetti for philosopher in philosophers)
TotalSpaghetti == SumTo(spaghetti, n - 1)

\* table, line 169: the while condition fails and the table thread returns
TableReturn ==
    /\ table_running
    /\ ~(TotalSpaghetti > 0)
    /\ table_running' = FALSE
    /\ UNCHANGED <<n, m, pc, spaghetti, eating, finished, lock, owner,
                   picked_up, queue, stdout, watched>>

PhilosopherStep(p) ==
    \/ Think(p)
    \/ pickup_acquire(p)
    \/ pickup_timeout(p)
    \/ pickup_owner(p)
    \/ pickup_picked_up(p)
    \/ pickup_put(p)
    \/ SleepRetry(p)
    \/ put_down_release(p)
    \/ put_down_picked_up(p)
    \/ put_down_owner(p)
    \/ put_down_put(p)
    \/ Decrement(p)
    \/ SetEating(p)
    \/ PutEating(p)
    \/ ClearEating(p)
    \/ PutDownEvent(p)
    \/ Leave(p)
    \/ Finish(p)

Next ==
    \/ \E p \in Threads : PhilosopherStep(p)
    \/ TableReturn

Spec == Init /\ [][Next]_vars

(***************************************************************************)
(* Who holds what, read off the threads' positions.                        *)
(***************************************************************************)

\* p is inside its call of pickup or put_down on fork f.
InCall(p, f) == pc[p][2] # 0 /\ ForkAt(p, pc[p][1]) = f

\* p has acquired the lock of its first fork (line 38 of the call at line
\* 106) and has not released it (line 50 of the call at line 110 or 124).
HasFirst(p) ==
    \/ pc[p][1] = 106 /\ pc[p][2] \in {39, 40, 41}
    \/ pc[p][1] = 107
    \/ pc[p] \in {AtDecrement, AtSetEating, AtPutEating, AtSleepEating}
    \/ pc[p] \in {<<110, 50>>, <<124, 50>>}

\* p has acquired the lock of its second fork (line 38 of the call at line
\* 107) and has not released it (line 50 of the call at line 125).
HasSecond(p) ==
    \/ pc[p][1] = 107 /\ pc[p][2] \in {39, 40, 41}
    \/ pc[p] \in {AtDecrement, AtSetEating, AtPutEating, AtSleepEating}
    \/ pc[p][1] = 124
    \/ pc[p] = <<125, 50>>

\* p is between acquiring the lock of fork f and releasing it.
Holds(p, f) ==
    \/ f = left_fork(p) /\ HasFirst(p)
    \/ f = right_fork(p) /\ HasSecond(p)

\* pickup(f) has returned True to p and p has not called put_down(f) yet.
PickedUp(p, f) ==
    \/ /\ f = left_fork(p)
       /\ \/ pc[p][1] = 107
          \/ pc[p] \in {AtDecrement, AtSetEating, AtPutEating, AtSleepEating}
    \/ /\ f = right_fork(p)
       /\ pc[p] \in {AtDecrement, AtSetEating, AtPutEating, AtSleepEating}

AllTerminated == \A p \in Philosophers : pc[p] = Terminated

\* The number of entries of q equal to e.
RECURSIVE Count(_, _)
Count(q, e) ==
    IF q = <<>> THEN 0
    ELSE (IF Head(q) = e THEN 1 ELSE 0) + Count(Tail(q), e)

(***************************************************************************)
(* C1  No double ownership.                                                *)
(***************************************************************************)

\* C1: in every reachable state every fork is held by at most one
\* philosopher (between its acquisition of the fork's lock and its release
\* of it), and the lock names that philosopher; rings of two included.
C1_NoDoubleOwnership ==
    \A f \in Forks : \A p \in Philosophers :
        Holds(p, f) =>
            /\ lock[f] = p
            /\ \A q \in Philosophers : Holds(q, f) => q = p

\* One philosopher holds both forks of the ring of two while the other one,
\* who shares both, is trying to acquire one of them.
C1_Witness ==
    /\ n = 2
    /\ Holds(0, 0) /\ Holds(0, 1)
    /\ pc[1][2] = 38

(***************************************************************************)
(* C4  Budget conservation.                                                *)
(***************************************************************************)

\* The only step that changes a budget: line 118, by exactly one, on the
\* way to the eating phase.
C4_Step ==
    \A p \in Philosophers :
        \/ spaghetti'[p] = spaghetti[p]
        \/ /\ spaghetti'[p] = spaghetti[p] - 1
           /\ pc[p] = AtDecrement
           /\ pc'[p] = AtSetEating

\* C4: a budget never goes negative nor above its initial value, is 0 once
\* the philosopher is finished, and changes only by the decrement of one
\* that opens an eating phase (so it went down exactly m times by then);
\* every eating phase is opened by that decrement.
C4_BudgetConservation ==
    /\ [](\A p \in Philosophers :
            /\ spaghetti[p] \in 0 .. m
            /\ (finished[p] \/ pc[p] \in {AtFinish, Terminated})
                   => spaghetti[p] = 0)
    /\ [][C4_Step]_vars
    /\ [][\A p \in Philosophers :
            (eating'[p] /\ ~eating[p]) => pc[p] = AtSetEating]_vars

\* A philosopher with a budget of two has finished while its neighbour,
\* whose first pickup failed, sleeps before its retry with its budget intact.
C4_Witness ==
    /\ m = 2
    /\ finished[0] /\ spaghetti[0] = 0
    /\ pc[1] = AtSleepRetry /\ spaghetti[1] = 2

(***************************************************************************)
(* C5  Paired acquisition.                                                 *)
(***************************************************************************)

\* C5: a philosopher whose eating flag is True is reported as owner by both
\* of its forks.  (The claim is an equivalence; this is the half of it that
\* the race of put_down with pickup breaks.  The other half fails between
\* the second pickup and line 119.)
C5_EatingImpliesOwnerOfBoth ==
    \A p \in Philosophers :
        eating[p] => (owner[left_fork(p)] = p /\ owner[right_fork(p)] = p)

(***************************************************************************)
(* C6  Owner reflects the real holder.                                     *)
(***************************************************************************)

\* C6: while p has a fork picked up (pickup returned True, put_down not yet
\* called) the fork's owner is p and picked_up is True; and a fork whose
\* lock is unlocked and on which no call is in progress has owner -1.
C6_OwnerIsHolder ==
    \A f \in Forks :
        /\ \A p \in Philosophers :
               PickedUp(p, f) => (owner[f] = p /\ picked_up[f])
        /\ (lock[f] = NoOwner /\ \A p \in Philosophers : ~InCall(p, f))
               => owner[f] = NoOwner

(***************************************************************************)
(* C7  picked_up agrees with owner.                                        *)
(***************************************************************************)

\* C7: whenever no pickup or put_down is in progress on a fork, its
\* picked_up is True exactly when its owner is not -1.  (The claim says so
\* of every instant; these are the instants at which no write is pending.)
C7_FieldsAgree ==
    \A f \in Forks :
        (\A p \in Philosophers : ~InCall(p, f))
            => (picked_up[f] <=> owner[f] # NoOwner)

(***************************************************************************)
(* C8  Event emission.                                                     *)
(***************************************************************************)

\* The step is line 41 of a pickup on fork f.
IsPickupPut(f) ==
    \E p \in Philosophers :
        pc[p][2] = 41 /\ ForkAt(p, pc[p][1]) = f /\ pc'[p] # pc[p]

\* The step is line 53 of a put_down on fork f.
IsPutDownPut(f) ==
    \E p \in Philosophers :
        pc[p][2] = 53 /\ ForkAt(p, pc[p][1]) = f /\ pc'[p] # pc[p]

\* C8: on the recorded Queue, line 41 of pickup appends one (f, "pickup"),
\* line 53 of put_down appends one (f, "put down"), and no other step
\* changes the number of (f, "pickup") or (f, "put down") entries: the
\* resource-level events in the channel are those the Fork emitted.
C8_OnlyForksEmitForkEvents ==
    [][\A f \in Forks :
          Recorded(f) =>
            /\ IsPickupPut(f) => queue'[f] = Append(queue[f], <<f, "pickup">>)
            /\ IsPutDownPut(f) => queue'[f] = Append(queue[f], <<f, "put down">>)
            /\ Count(queue'[f], <<f, "pickup">>) # Count(queue[f], <<f, "pickup">>)
                   => IsPickupPut(f)
            /\ Count(queue'[f], <<f, "put down">>) # Count(queue[f], <<f, "put down">>)
                   => IsPutDownPut(f)]_vars

(***************************************************************************)
(* C9  Run-to-completion accounting.                                       *)
(***************************************************************************)

C10_ReleaseByHolder ==
    \A p \in Philosophers :
        /\ pc[p] # Crashed
        /\ pc[p][2] = 50 => lock[ForkAt(p, pc[p][1])] = p

\* One philosopher is about to release its first fork after a failed second
\* pickup while another is about to release its second fork after eating.
C10_Witness ==
    \E p, q \in Philosophers :
        pc[p] = <<110, 50>> /\ pc[q] = <<125, 50>>

(***************************************************************************)
(* Schedules.  The threads are preemptive operating-system threads and     *)
(* every sleep and timeout is finite, so a thread that can take a step     *)
(* eventually takes one: weak fairness of every thread.  LiveInit records  *)
(* no Queue, which no thread ever reads.                                   *)
(***************************************************************************)

LiveInit == Setup /\ watched = NoFork

\* Every thread that is not terminated keeps taking steps.
ThreadsKeepRunning ==
    /\ \A p \in Threads : WF_vars(PhilosopherStep(p))
    /\ WF_vars(TableReturn)

\* The program with no Queue recorded and no assumption on the schedule.
LiveSpec == LiveInit /\ [][Next]_vars

FairSpec == LiveInit /\ [][Next]_vars /\ ThreadsKeepRunning

\* The step is a backoff: a second pickup times out (lines 107, 109).
IsBackoff ==
    \E p \in Threads :
        /\ p \in Philosophers
        /\ pc[p] = <<107, 38>>
        /\ pickup_timeout(p)

\* The philosophers that are inside eat with a lock in hand or a put_down
\* to complete.
Busy ==
    {p \in Philosophers :
        pc[p] \notin {AtLoop, <<106, 38>>, AtSleepRetry, AtFinish,
                      Terminated, Crashed}}

\* The philosophers whose thread has not ended.
Unterminated == {p \in Philosophers : pc[p] \notin {Terminated, Crashed}}

Lowest(S) == CHOOSE p \in S : \A q \in S : p <= q

\* One schedule among those the threads can follow: the busy philosopher
\* of lowest index runs, and when none is busy the unterminated one of
\* lowest index does.
PoliteNext ==
    \/ \E p \in Threads :
          /\ p \in Philosophers
          /\ IF Busy # {} THEN p = Lowest(Busy)
             ELSE Unterminated # {} /\ p = Lowest(Unterminated)
          /\ PhilosopherStep(p)
    \/ TableReturn

\* table, line 169: the loop's condition has become false.
GlobalCompletion == TotalSpaghetti = 0

\* All budgets are 0 and all philosophers are finished.
AllDone ==
    \A p \in Philosophers : spaghetti[p] = 0 /\ finished[p]

\* Every philosopher holds its first fork and is about to try its second:
\* the circular wait of the classic deadlock.
CircularWait == \A p \in Philosophers : pc[p] = <<107, 38>>

(***************************************************************************)
(* C2  Deadlock freedom / global completion.                               *)
(***************************************************************************)

\* C2 as claimed: on every schedule on which every unfinished philosopher
\* keeps taking steps, the sum of the budgets eventually reaches 0.
C2_CompletesOnEveryFairSchedule == <>GlobalCompletion

\* C2: on every schedule on which every unfinished philosopher keeps taking
\* steps, the sum of the budgets eventually reaches 0 unless second pickups
\* keep timing out for ever (the philosophers back off again and again).
C2_CompletesUnlessBackoffForever ==
    (<>[][~IsBackoff]_vars) => <>GlobalCompletion

\* A ring of three has completed: the sum is 0, the table thread has seen
\* it and every philosopher thread has ended.
C2_Witness ==
    /\ n = 3
    /\ GlobalCompletion
    /\ AllTerminated
    /\ ~table_running

(***************************************************************************)
(* C3  No trap.                                                            *)
(***************************************************************************)

\* C3: from every reachable state global completion (all budgets 0, all
\* philosophers finished) can still be reached: a run that has come to any
\* state whatever and follows the polite schedule from there on, not
\* stopping while that schedule has a step, reaches it.
C3_CompletionStaysReachable ==
    (<>[][PoliteNext]_vars /\ WF_vars(PoliteNext)) => <>AllDone

\* The circular wait is reached, and is no trap.
C3_Witness == n = 3 /\ CircularWait

(***************************************************************************)
(* C11  A pickup that times out has no effect.                             *)
(***************************************************************************)

\* Thread p leaves line 38 of a pickup whose lock somebody holds.
IsFailedPickup(p) ==
    /\ p \in Philosophers
    /\ pc[p][2] = 38
    /\ lock[ForkAt(p, pc[p][1])] # NoOwner
    /\ pc'[p] # pc[p]

\* C11: a pickup that finds the lock held until its timeout returns False
\* (the caller continues in the else branch of its if) and leaves every
\* fork's lock, owner and picked_up, every philosopher's spaghetti and
\* eating flag, and every queue as they were.
C11_FailedPickupChangesNothing ==
    [][\A p \in Threads :
          IsFailedPickup(p) =>
              /\ pc'[p] = (IF pc[p][1] = 106 THEN AtSleepRetry
                                             ELSE <<110, 50>>)
              /\ UNCHANGED <<lock, owner, picked_up, spaghetti, eating,
                             finished, queue>>]_vars

\* A first-fork pickup has failed on a fork whose holder has written its
\* fields and its "pickup" event, and a second-fork pickup has failed too.
C11_Witness ==
    \E p, q \in Philosophers :
        /\ pc[p] = AtSleepRetry
        /\ lock[left_fork(p)] \notin {NoOwner, p}
        /\ owner[left_fork(p)] = lock[left_fork(p)]
        /\ picked_up[left_fork(p)]
        /\ pc[q] = <<110, 50>>
        /\ lock[right_fork(q)] \notin {NoOwner, q}

(***************************************************************************)
(* C12  Backoff: no hold-and-wait.                                         *)
(***************************************************************************)

\* What thread p may do next around a failed second pickup.
C12_Step(p) ==
    \* a second pickup that fails is followed by put_down of the first fork
    /\ pc[p] = <<107, 38>> /\ pc'[p] # pc[p] =>
           /\ pc'[p] \in {<<107, 39>>, <<110, 50>>}
           /\ lock[right_fork(p)] # NoOwner => pc'[p] = <<110, 50>>
    \* that put_down runs to its end and is followed by an attempt on the
    \* first fork
    /\ pc[p][1] = 110 /\ pc'[p] # pc[p] =>
           \/ pc'[p][1] = 110 /\ pc'[p][2] > pc[p][2]
           \/ pc[p][2] = 53 /\ pc'[p] = <<106, 38>>
    \* an attempt on the second fork follows a fresh pickup of the first
    /\ pc'[p] = <<107, 38>> /\ pc'[p] # pc[p] => pc[p] = <<106, 41>>

\* C12: a philosopher whose pickup of the second fork fails calls put_down
\* of its first fork as its very next fork operation and then starts again
\* with an attempt on the first fork; it never attempts the second fork
\* twice while continuously holding the first, and it holds no lock while
\* it is backing off or starting again.
C12_BackoffReleasesFirstFork ==
    /\ [](\A p \in Philosophers :
            /\ pc[p] = <<110, 50>> => lock[left_fork(p)] = p
            /\ \/ pc[p][1] = 110 /\ pc[p][2] \in {51, 52, 53}
               \/ pc[p] \in {<<106, 38>>, AtSleepRetry}
               => \A f \in Forks : lock[f] # p)
    /\ [][\A p \in Philosophers : C12_Step(p)]_vars

\* A philosopher has backed off (its put_down of the first fork is past the
\* release) while its second fork is still held by its neighbour.
C12_Witness ==
    \E p \in Philosophers :
        /\ pc[p] = <<110, 52>>
        /\ lock[right_fork(p)] \notin {NoOwner, p}

(***************************************************************************)
(* C13  Eating requires both forks.                                        *)
(***************************************************************************)

\* p has decremented its spaghetti for this meal (line 118) and has not
\* left the sleep of line 121, or its eating flag is set.
InEatingPhase(p) ==
    \/ pc[p] \in {AtSetEating, AtPutEating, AtSleepEating}
    \/ eating[p]

\* C13: a philosopher that has decremented its spaghetti for this meal,
\* has its eating flag set or is putting its "eating" event holds the locks
\* of both its forks; it reaches line 118 only from a completed pickup at
\* line 107, which it reaches only from a completed pickup at line 106,
\* and it starts at line 106 holding no lock.
C13_EatingHoldsBothLocks ==
    /\ [](\A p \in Philosophers :
            /\ InEatingPhase(p) =>
                   lock[left_fork(p)] = p /\ lock[right_fork(p)] = p
            /\ pc[p] = <<106, 38>> => \A f \in Forks : lock[f] # p)
    /\ [][\A p \in Philosophers :
            /\ pc'[p] = AtDecrement /\ pc[p] # AtDecrement =>
                   pc[p] = <<107, 41>>
            /\ pc'[p][1] = 107 /\ pc[p][1] # 107 => pc[p] = <<106, 41>>
            /\ pc'[p] = AtSetEating /\ pc[p] # AtSetEating =>
                   pc[p] = AtDecrement /\ spaghetti'[p] = spaghetti[p] - 1]_vars

\* A philosopher eats its second meal, eating flag set.
C13_Witness ==
    \E p \in Philosophers :
        /\ m = 2
        /\ spaghetti[p] = 0
        /\ eating[p]
        /\ pc[p] = AtSleepEating

(***************************************************************************)
(* C14  Fixed acquisition order.                                           *)
(***************************************************************************)

\* p is in the loop of lines 105-112.
Acquiring(p) == pc[p][1] \in {106, 107, 110} \/ pc[p] = AtSleepRetry

\* C14: philosopher i attempts fork i first (the acquire of line 106 takes
\* the lock of fork i and no other) and attempts fork (i - 1 + n) % n only
\* while it holds the lock of fork i (the acquire of line 107 takes the
\* lock of that fork and no other); while it is acquiring it never holds
\* the lock of fork (i - 1 + n) % n without that of fork i.
C14_FirstForkFirst ==
    /\ [](\A i \in Philosophers :
            /\ pc[i][1] = 107 => lock[i] = i
            /\ Acquiring(i) /\ lock[(i - 1 + n) % n] = i => lock[i] = i)
    /\ [][\A i \in Philosophers :
            /\ pc[i] = <<106, 38>> /\ pc'[i] = <<106, 39>> =>
                   lock' = [lock EXCEPT ![i] = i]
            /\ pc[i] = <<107, 38>> /\ pc'[i] = <<107, 39>> =>
                   lock' = [lock EXCEPT ![(i - 1 + n) % n] = i]
            /\ pc[i][2] = 38 /\ pc'[i] # pc[i] /\ pc'[i][2] # 39 =>
                   lock' = lock]_vars

\* In a ring of three a philosopher holding fork i waits for fork
\* (i - 1 + n) % n, which its neighbour holds.
C14_Witness ==
    \E i \in Philosophers :
        /\ n = 3
        /\ pc[i] = <<107, 38>>
        /\ lock[i] = i
        /\ lock[(i - 1 + n) % n] \notin {NoOwner, i}

(***************************************************************************)
(* C15  Ring wiring.                                                       *)
(***************************************************************************)

\* The philosophers that were constructed with fork f.
UsersOf(f) == {p \in Philosophers : f \in {left_fork(p), right_fork(p)}}

\* C15: for every n >= 2 the two forks of each philosopher are distinct,
\* and every fork f is referenced by exactly two philosophers, f and
\* (f + 1) % n: it is the first fork of philosopher f and the second fork
\* of philosopher (f + 1) % n, and no other philosopher ever locks it.
C15_RingWiring ==
    /\ \A p \in Philosophers :
           /\ left_fork(p) \in Forks
           /\ right_fork(p) \in Forks
           /\ left_fork(p) # right_fork(p)
    /\ \A f \in Forks :
           /\ UsersOf(f) = {f, (f + 1) % n}
           /\ Cardinality(UsersOf(f)) = 2
           /\ left_fork(f) = f
           /\ right_fork((f + 1) % n) = f
           /\ lock[f] \in {NoOwner, f, (f + 1) % n}

\* In a ring of three, fork 0 is locked by philosopher 1 as its second
\* fork while fork 2 is locked by philosopher 2 as its first fork.
C15_Witness ==
    /\ n = 3
    /\ lock[0] = 1
    /\ lock[1] = 1
    /\ lock[2] = 2

(***************************************************************************)
(* C16  Done is terminal and leaks nothing.                                *)
(***************************************************************************)

AllFinished == \A p \in Philosophers : finished[p]

\* C16: a philosopher whose finished flag is set has no spaghetti left,
\* holds no lock and takes no further step (no pickup, no put_down); when
\* every philosopher is finished every fork is free: its lock is released,
\* its owner is -1 and its picked_up is False, whatever the interleaving.
C16_DoneIsTerminal ==
    /\ [](\A p \in Philosophers :
            finished[p] =>
                /\ spaghetti[p] = 0
                /\ pc[p] = Terminated
                /\ \A f \in Forks : lock[f] # p)
    /\ [](AllFinished =>
            \A f \in Forks :
                /\ lock[f] = NoOwner
                /\ owner[f] = NoOwner
                /\ ~picked_up[f])
    /\ [][\A p \in Philosophers : finished[p] => pc'[p] = pc[p]]_vars

\* All philosophers of a ring have eaten two portions each and are
\* finished, one having left the table while the other was still at it.
C16_Witness ==
    /\ m = 2
    /\ AllFinished
    /\ stdout = <<1, 0>>

(***************************************************************************)
(* C17  Neighbours never eat at the same time.                             *)
(***************************************************************************)

\* C17: philosophers i and (i + 1) % n, who share fork i, are never both
\* in the eating phase; at most n \div 2 philosophers are in it at once
\* (for n = 2, at most one).
C17_NeighboursNeverEatTogether ==
    /\ \A i \in Philosophers :
           ~(InEatingPhase(i) /\ InEatingPhase((i + 1) % n))
    /\ Cardinality({p \in Philosophers : InEatingPhase(p)}) <= n \div 2

\* In a ring of three a philosopher eats while the neighbour that shares
\* its first fork holds its own first fork and waits for the shared one.
C17_Witness ==
    \E i \in Philosophers :
        /\ n = 3
        /\ eating[i]
        /\ pc[(i + 1) % n] = <<107, 38>>

(***************************************************************************)
(* C18  A fork's "pickup" and "put down" events alternate.                 *)
(***************************************************************************)

\* A put_down on fork f has released the lock (line 50) and has not yet
\* put its "put down" event (line 53).
PutDownEventPending(f) ==
    \E q \in Philosophers :
        pc[q][2] \in {51, 52, 53} /\ ForkAt(q, pc[q][1]) = f

\* C18: the "pickup" event of a fork's next holder (line 41) is never put
\* on the queue before the "put down" event of its previous holder (line
\* 53), so that the events a fork emits alternate "pickup", "put down",
\* "pickup", ...
C18_PickupEventAfterPutDownEvent ==
    [][\A f \in Forks : IsPickupPut(f) => ~PutDownEventPending(f)]_vars

(***************************************************************************)
(* C19  What the table loop's termination condition implies.               *)
(***************************************************************************)

\* C19 as claimed: whenever the sum of all philosophers' spaghetti is 0, no
\* philosopher is eating or holding a fork and every philosopher is
\* finished.
C19_CompletionImpliesQuiescence ==
    GlobalCompletion =>
        \A p \in Philosophers :
            /\ ~InEatingPhase(p)
            /\ \A f \in Forks : lock[f] # p
            /\ finished[p]

\* p is in its last meal or past it: eating, putting its forks down,
\* leaving the table, or gone.
PastLastDecrement(p) ==
    \/ pc[p] \in {AtSetEating, AtPutEating, AtSleepEating, AtPutDownEvent,
                  AtLoop, AtFinish, Terminated}
    \/ pc[p][1] \in {124, 125}

\* C19 amended: whenever the sum of all philosophers' spaghetti is 0, every
\* philosopher has an empty plate and is eating its last portion, putting
\* its forks down, leaving the table or finished; none is thinking or
\* trying to pick a fork up, and a finished philosopher holds no fork.
C19_CompletionImpliesLastMeals ==
    GlobalCompletion =>
        \A p \in Philosophers :
            /\ spaghetti[p] = 0
            /\ PastLastDecrement(p)
            /\ finished[p] => \A f \in Forks : lock[f] # p

\* The sum is 0 and the table loop has not ended yet, while the philosopher
\* who took the last portion eats it with both forks in hand and another
\* philosopher has finished.
C19_Witness ==
    \E p, q \in Philosophers :
        /\ GlobalCompletion
        /\ table_running
        /\ eating[p]
        /\ lock[left_fork(p)] = p
        /\ lock[right_fork(p)] = p
        /\ finished[q]

====
